---- MODULE Spec2Model ----
(***************************************************************************)
(* A model of two MDAL format drivers:                                     *)
(*   - DriverEsriTin::load  (src/mdal/frmts/mdal_esri_tin.cpp)             *)
(*   - Driver2dm::load/save (src/mdal/frmts/mdal_2dm.cpp)                  *)
(* Indexed containers (std::vector, std::map) are functions over their     *)
(* 0-based index sets; lists that are only appended to are sequences.      *)
(***************************************************************************)
EXTENDS Integers, Sequences, FiniteSets, TLC

(***************************************************************************)
(* Bounds of the model.                                                    *)
(***************************************************************************)
\* largest total raw index count of a TIN header, and largest raw index (1-based) in a face record
MaxTotal == 3
\* face records of a short TIN face file
MaxFaces == 2
\* face records of a long TIN face file (crossing the 32-bit mask word boundary)
MinMaskFaces == 31
MaxMaskFaces == 34
\* lines of a 2DM file after its header line
MaxLines == 3
\* largest node ID of an ND line
MaxNodeID == 3
\* the mesh handed to save
MaxMeshVerts == 4
MaxMeshFaces == 2
MaxMeshEdges == 1

(***************************************************************************)
(* Program constants.                                                      *)
(***************************************************************************)
\* bits held by one mask word: "c % 32 == 0"
MaskWordBits == 32
\* the mark Round 1 writes into the lookup table for a wanted raw index
WantedMark == 1

MinInt32 == -2147483647 - 1

\* std::numeric_limits<double>::quiet_NaN(), no number of a file is negative
NaN == -1

VARIABLES
  \* ---- DriverEsriTin::load ----
  tpc,                        \* position in load
  tstatus,                    \* *status
  totalIndexesCount,          \* header value (tdenv.adf)
  maskBitsCount,              \* trailer value of tmsk.adf
  c,                          \* face records processed in Round 1
  maskInt,                    \* current (shifted) mask word
  rawAndCorrectedIndexesMap,  \* lookup table, 0-based
  faces,                      \* kept faces (raw indexes, dense after Round 4)
  correctedIndexCount,
  r2i,                        \* loop index of Round 2
  xyCount, xyHalf, zCount,    \* tnxy.adf: complete records, trailing lone x; tnz.adf: records
  vertices,                   \* vertex container, 0-based
  rawIndex,                   \* loop index of Round 3
  tmesh,                      \* the returned mesh
  \* history of what Round 1 consumed
  mskRead,                    \* mask words read from tmsk.adf so far
  keptFlags,                  \* per face record read: was it pushed to faces
  rawFaces                    \* kept faces as read from tnod.adf (raw 0-based indexes)

varsTin == <<tpc, tstatus, totalIndexesCount, maskBitsCount, c, maskInt,
             rawAndCorrectedIndexesMap, faces, correctedIndexCount, r2i,
             xyCount, xyHalf, zCount, vertices, rawIndex, tmesh,
             mskRead, keptFlags, rawFaces>>

VARIABLES
  \* ---- Driver2dm::load and Driver2dm::save ----
  file2dm,                    \* the lines of the mesh file, each the chunks split( line, ' ' ) gives
  pc2,                        \* position in load
  status2,                    \* last status of MDAL::Log
  log2,                       \* every status logged since the last reset
  pos2,                       \* next line std::getline reads (1-based)
  faceCount, vertexCount, edgesCount,
  vertices2, edges2, faces2,  \* the containers, 0-based
  elementCenteredElevation,
  faceIndex, vertexIndex, edgeIndex,
  vertexIDtoIndex,
  lastVertexID,
  mesh2,                      \* the returned mesh
  saved, savedMesh            \* what save was called with, if it was

vars2dm == <<file2dm, pc2, status2, log2, pos2, faceCount, vertexCount, edgesCount,
             vertices2, edges2, faces2, elementCenteredElevation,
             faceIndex, vertexIndex, edgeIndex, vertexIDtoIndex, lastVertexID,
             mesh2, saved, savedMesh>>

vars == <<varsTin, vars2dm>>

(***************************************************************************)
(* Esri TIN driver                                                         *)
(***************************************************************************)
EmptyFn == [k \in {} |-> 0]

NoMesh == [valid |-> FALSE]

\* a default constructed Vertex (x = y = NaN, z = 0)
DefaultVertex == [x |-> NaN, y |-> NaN, z |-> 0]

\* the vertex read from record r of tnxy.adf (x, y) and tnz.adf (z): each file value
\* is stamped with its record number so that a misplaced record is visible
RecordVertex(r) == [x |-> 10 + r, y |-> 20 + r, z |-> 30 + r]

\* int32 mask words a mask file may hold
MaskWords == {0, 1, 2, 3, MinInt32}

\* values of maskBitsCount a mask file trailer may hold
MaskBitsCounts == {0, 1, MaskWordBits, MaskWordBits + 1}

\* face records: three 1-based raw indexes, in any order
FaceRecords == [1..3 -> 1..MaxTotal]

\* a short face file with any records, a long one of one repeated triangle
ShortProfile == [records |-> FaceRecords, minFaces |-> 0, maxFaces |-> MaxFaces,
                 words |-> {0, 1, 2, 3}, bitCounts |-> {0, MaskWordBits}]
LongProfile == [records |-> {<<1, 1, 1>>}, minFaces |-> MinMaskFaces, maxFaces |-> MaxMaskFaces,
                words |-> MaskWords, bitCounts |-> MaskBitsCounts]

\* coordinate and elevation files for n raw indexes: both complete, or the coordinate
\* file ends first (at a record boundary or after a lone x), or the elevation file does
XYZChoices(n) == {f \in [xy : 0..n, half : BOOLEAN, z : 0..n] :
                    \/ f.xy = n /\ f.z = n /\ ~f.half
                    \/ f.xy < n /\ f.z = f.xy + 1
                    \/ f.z < n /\ f.xy = f.z + 1 /\ ~f.half}

InitTin ==
  /\ tpc = "start"
  /\ tstatus = "None"
  /\ totalIndexesCount = 0
  /\ maskBitsCount = 0
  /\ c = 0
  /\ maskInt = 0
  /\ rawAndCorrectedIndexesMap = EmptyFn
  /\ faces = <<>>
  /\ correctedIndexCount = 0
  /\ r2i = 0
  /\ xyCount = 0 /\ xyHalf = FALSE /\ zCount = 0
  /\ vertices = EmptyFn
  /\ rawIndex = 0
  /\ tmesh = NoMesh
  /\ mskRead = <<>>
  /\ keptFlags = <<>>
  /\ rawFaces = <<>>

\* throw MDAL_Status: caught at the end of load, no mesh is returned
TinThrow(err) ==
  /\ tpc' = "failed"
  /\ tstatus' = err
  /\ tmesh' = NoMesh

\* read totalIndexesCount, allocate the lookup table filled with the sentinel
TinReadHeader ==
  /\ tpc = "start"
  /\ \E n \in 0..MaxTotal :
       /\ totalIndexesCount' = n
       /\ rawAndCorrectedIndexesMap' = [r \in 0..(n - 1) |-> n]
  /\ tpc' = "meta"
  /\ UNCHANGED <<vars2dm, tstatus, maskBitsCount, c, maskInt, faces, correctedIndexCount, r2i,
                 xyCount, xyHalf, zCount, vertices, rawIndex, tmesh,
                 mskRead, keptFlags, rawFaces>>

\* neither tdenv.adf nor tdenv9.adf opens
TinHeaderMissing ==
  /\ tpc = "start"
  /\ TinThrow("Err_UnknownFormat")
  /\ UNCHANGED <<vars2dm, totalIndexesCount, maskBitsCount, c, maskInt, rawAndCorrectedIndexesMap,
                 faces, correctedIndexCount, r2i, xyCount, xyHalf, zCount, vertices,
                 rawIndex, mskRead, keptFlags, rawFaces>>

\* open tnod/tmsk/tmsx and read the mask trailer
TinReadMaskMetadata(P) ==
  /\ tpc = "meta"
  /\ \E n \in P.bitCounts : maskBitsCount' = n
  /\ tpc' = "round1"
  /\ UNCHANGED <<vars2dm, tstatus, totalIndexesCount, c, maskInt, rawAndCorrectedIndexesMap, faces,
                 correctedIndexCount, r2i, xyCount, xyHalf, zCount, vertices, rawIndex,
                 tmesh, mskRead, keptFlags, rawFaces>>

TinMetadataFail ==
  /\ tpc = "meta"
  /\ \E err \in {"Err_FileNotFound", "Err_UnknownFormat"} : TinThrow(err)
  /\ UNCHANGED <<vars2dm, totalIndexesCount, maskBitsCount, c, maskInt, rawAndCorrectedIndexesMap,
                 faces, correctedIndexCount, r2i, xyCount, xyHalf, zCount, vertices,
                 rawIndex, mskRead, keptFlags, rawFaces>>

\* "c % 32 == 0 && c < maskBitsCount": a fresh mask word has to be read
NeedMaskWord == c % MaskWordBits = 0 /\ c < maskBitsCount

\* "maskInt & 0x01"
MaskedBit(m) == m % 2

\* "maskInt = maskInt >> 1" on int32_t: the sign is kept
ShiftAfterFaceSkipMasked(m, kept) == IF kept THEN m \div 2 ELSE m
ShiftAfterFace(m, kept) == m \div 2

\* "f.push_back( static_cast<size_t>( index - 1 ) )" for the three indexes of a record
RawFace(t) == [j \in 1..3 |-> t[j] - 1]

\* the lookup table after "rawAndCorrectedIndexesMap[ri] = 1" for every ri of f
MarkWanted(map, f) ==
  [r \in DOMAIN map |-> IF \E j \in 1..3 : f[j] = r THEN WantedMark ELSE map[r]]

\* one iteration of the Round 1 loop that reads a complete face record
TinRound1Face(P) ==
  /\ tpc = "round1"
  /\ c < P.maxFaces
  /\ \E w \in P.words, t \in P.records :
       LET m == IF NeedMaskWord THEN w ELSE maskInt
           f == RawFace(t)
           kept == MaskedBit(m) = 0
       IN /\ kept => \A j \in 1..3 : f[j] < totalIndexesCount
          /\ mskRead' = IF NeedMaskWord THEN Append(mskRead, w) ELSE mskRead
          /\ faces' = IF kept THEN Append(faces, f) ELSE faces
          /\ rawFaces' = IF kept THEN Append(rawFaces, f) ELSE rawFaces
          /\ rawAndCorrectedIndexesMap' =
               IF kept THEN MarkWanted(rawAndCorrectedIndexesMap, f)
               ELSE rawAndCorrectedIndexesMap
          /\ keptFlags' = Append(keptFlags, kept)
          /\ c' = c + 1
          /\ maskInt' = ShiftAfterFace(m, kept)
  /\ UNCHANGED <<vars2dm, tpc, tstatus, totalIndexesCount, maskBitsCount, correctedIndexCount, r2i,
                 xyCount, xyHalf, zCount, vertices, rawIndex, tmesh>>

\* the lookup table when the loop over the indexes of f throws at position n: the
\* indexes before it are marked
MarkWantedBefore(map, f, n) ==
  [r \in DOMAIN map |-> IF \E j \in 1..(n - 1) : f[j] = r THEN WantedMark ELSE map[r]]

\* a kept face names a raw index outside the lookup table: the face is already pushed
\* and the indexes before the offending one are marked when load throws
TinRound1BadIndex(P) ==
  /\ tpc = "round1"
  /\ c < P.maxFaces
  /\ \E w \in P.words, t \in P.records :
       LET m == IF NeedMaskWord THEN w ELSE maskInt
           f == RawFace(t)
       IN /\ MaskedBit(m) = 0
          /\ \E j \in 1..3 :
               /\ f[j] >= totalIndexesCount
               /\ \A k \in 1..(j - 1) : f[k] < totalIndexesCount
               /\ rawAndCorrectedIndexesMap' = MarkWantedBefore(rawAndCorrectedIndexesMap, f, j)
          /\ faces' = Append(faces, f)
          /\ mskRead' = IF NeedMaskWord THEN Append(mskRead, w) ELSE mskRead
          /\ maskInt' = m
  /\ TinThrow("Err_UnknownFormat")
  /\ UNCHANGED <<vars2dm, totalIndexesCount, maskBitsCount, c, correctedIndexCount, r2i, xyCount, xyHalf, zCount, vertices,
                 rawIndex, keptFlags, rawFaces>>

\* the mask word that is due cannot be read, or (after the mask word, when one is
\* due, was read) the face record holds one or two indexes only
TinRound1Short(P) ==
  /\ tpc = "round1"
  /\ \/ NeedMaskWord /\ UNCHANGED <<mskRead, maskInt>>
     \/ \E w \in P.words :
          /\ mskRead' = IF NeedMaskWord THEN Append(mskRead, w) ELSE mskRead
          /\ maskInt' = IF NeedMaskWord THEN w ELSE maskInt
  /\ TinThrow("Err_UnknownFormat")
  /\ UNCHANGED <<vars2dm, totalIndexesCount, maskBitsCount, c, rawAndCorrectedIndexesMap,
                 faces, correctedIndexCount, r2i, xyCount, xyHalf, zCount, vertices,
                 rawIndex, keptFlags, rawFaces>>

\* end of the face file: "f.size() == 0", leave the loop
TinRound1End(P) ==
  /\ tpc = "round1"
  /\ c >= P.minFaces
  /\ \E w \in P.words :
       /\ mskRead' = IF NeedMaskWord THEN Append(mskRead, w) ELSE mskRead
       /\ maskInt' = IF NeedMaskWord THEN w ELSE maskInt
  /\ tpc' = "round2"
  /\ UNCHANGED <<vars2dm, tstatus, totalIndexesCount, maskBitsCount, c, rawAndCorrectedIndexesMap,
                 faces, correctedIndexCount, r2i, xyCount, xyHalf, zCount, vertices,
                 rawIndex, tmesh, keptFlags, rawFaces>>

\* "rawAndCorrectedIndexesMap.at( i ) < totalIndexesCount"
IsWantedEntry(v) == v < totalIndexesCount

\* one iteration of the Round 2 loop
TinRound2Step ==
  /\ tpc = "round2"
  /\ r2i < totalIndexesCount
  /\ IF IsWantedEntry(rawAndCorrectedIndexesMap[r2i])
     THEN /\ rawAndCorrectedIndexesMap' =
               [rawAndCorrectedIndexesMap EXCEPT ![r2i] = correctedIndexCount]
          /\ correctedIndexCount' = correctedIndexCount + 1
     ELSE UNCHANGED <<rawAndCorrectedIndexesMap, correctedIndexCount>>
  /\ r2i' = r2i + 1
  /\ UNCHANGED <<vars2dm, tpc, tstatus, totalIndexesCount, maskBitsCount, c, maskInt, faces,
                 xyCount, xyHalf, zCount, vertices, rawIndex, tmesh,
                 mskRead, keptFlags, rawFaces>>

\* Round 2 is over: allocate the vertices and open tnxy.adf and tnz.adf
TinOpenXYZ ==
  /\ tpc = "round2"
  /\ r2i >= totalIndexesCount
  /\ vertices' = [d \in 0..(correctedIndexCount - 1) |-> DefaultVertex]
  /\ \E f \in XYZChoices(totalIndexesCount) :
       /\ xyCount' = f.xy
       /\ xyHalf' = f.half
       /\ zCount' = f.z
  /\ tpc' = "round3"
  /\ UNCHANGED <<vars2dm, tstatus, totalIndexesCount, maskBitsCount, c, maskInt,
                 rawAndCorrectedIndexesMap, faces, correctedIndexCount, r2i, rawIndex,
                 tmesh, mskRead, keptFlags, rawFaces>>

\* Round 2 is over and the vertices are allocated, but tnxy.adf or tnz.adf does not open
TinXYZMissing ==
  /\ tpc = "round2"
  /\ r2i >= totalIndexesCount
  /\ vertices' = [d \in 0..(correctedIndexCount - 1) |-> DefaultVertex]
  /\ TinThrow("Err_FileNotFound")
  /\ UNCHANGED <<vars2dm, totalIndexesCount, maskBitsCount, c, maskInt, rawAndCorrectedIndexesMap,
                 faces, correctedIndexCount, r2i, xyCount, xyHalf, zCount,
                 rawIndex, mskRead, keptFlags, rawFaces>>

\* what the reads of one Round 3 iteration meet at record r
XExhausted(r) == r >= xyCount /\ ~(xyHalf /\ r = xyCount)
YMissing(r) == xyHalf /\ r = xyCount
ZMissing(r) == r >= zCount

\* one iteration of the Round 3 loop that reads x, y and z
TinRound3Step ==
  /\ tpc = "round3"
  /\ rawIndex < totalIndexesCount
  /\ ~XExhausted(rawIndex) /\ ~YMissing(rawIndex) /\ ~ZMissing(rawIndex)
  /\ vertices' = IF IsWantedEntry(rawAndCorrectedIndexesMap[rawIndex])
                 THEN [vertices EXCEPT ![rawAndCorrectedIndexesMap[rawIndex]] =
                                         RecordVertex(rawIndex)]
                 ELSE vertices
  /\ rawIndex' = rawIndex + 1
  /\ UNCHANGED <<vars2dm, tpc, tstatus, totalIndexesCount, maskBitsCount, c, maskInt,
                 rawAndCorrectedIndexesMap, faces, correctedIndexCount, r2i,
                 xyCount, xyHalf, zCount, tmesh, mskRead, keptFlags, rawFaces>>

\* y or z cannot be read after x was
TinRound3Short ==
  /\ tpc = "round3"
  /\ rawIndex < totalIndexesCount
  /\ ~XExhausted(rawIndex)
  /\ YMissing(rawIndex) \/ ZMissing(rawIndex)
  /\ TinThrow("Err_UnknownFormat")
  /\ UNCHANGED <<vars2dm, totalIndexesCount, maskBitsCount, c, maskInt, rawAndCorrectedIndexesMap,
                 faces, correctedIndexCount, r2i, xyCount, xyHalf, zCount, vertices,
                 rawIndex, mskRead, keptFlags, rawFaces>>

\* "fi = rawAndCorrectedIndexesMap[fi]" for every index of every kept face
RemapFaces(fs, map) == [k \in 1..Len(fs) |-> [j \in 1..3 |-> map[fs[k][j]]]]

\* addBedElevationDatasetGroup attaches its dataset group only if there are values,
\* one per vertex
BedElevationGroupAttached(verticesCount) == verticesCount > 0

\* the Round 3 loop ends (all raw indexes done, or x cannot be read); Round 4 and
\* the construction of the mesh. "mesh->datasetGroups.back()" is undefined when no
\* dataset group was attached: load then returns the mesh all the same, or it crashes
\* and returns nothing
TinRound4 ==
  /\ tpc = "round3"
  /\ rawIndex >= totalIndexesCount \/ XExhausted(rawIndex)
  /\ faces' = RemapFaces(faces, rawAndCorrectedIndexesMap)
  /\ \/ /\ tmesh' = [valid |-> TRUE,
                     verticesCount |-> correctedIndexCount,
                     facesCount |-> Len(faces),
                     faces |-> RemapFaces(faces, rawAndCorrectedIndexesMap),
                     vertices |-> vertices]
        /\ tpc' = "done"
     \/ /\ ~BedElevationGroupAttached(correctedIndexCount)
        /\ tmesh' = NoMesh
        /\ tpc' = "crashed"
  /\ UNCHANGED <<vars2dm, tstatus, totalIndexesCount, maskBitsCount, c, maskInt,
                 rawAndCorrectedIndexesMap, correctedIndexCount, r2i,
                 xyCount, xyHalf, zCount, vertices, rawIndex, mskRead, keptFlags, rawFaces>>

NextTin(P) ==
  \/ TinReadHeader
  \/ TinHeaderMissing
  \/ TinReadMaskMetadata(P)
  \/ TinMetadataFail
  \/ TinRound1Face(P)
  \/ TinRound1BadIndex(P)
  \/ TinRound1Short(P)
  \/ TinRound1End(P)
  \/ TinRound2Step
  \/ TinOpenXYZ
  \/ TinXYZMissing
  \/ TinRound3Step
  \/ TinRound3Short
  \/ TinRound4

NextTinShort == NextTin(ShortProfile)
NextTinLong == NextTin(LongProfile)


(***************************************************************************)
(* 2DM driver                                                              *)
(***************************************************************************)
\* size_t arithmetic wraps; the width is cut to 30 bits to stay within the checker's integers
SizeMod == 2 ^ 30

\* "x - 1" on a size_t: 0 wraps to the largest value
SizeSub1(n) == (n - 1) % SizeMod

\* chunks[k] of a line, k counted from 0 as in the code
Chunk(line, k) == line[k + 1]

\* lines a file may hold: nodes of any ID, a triangle, a quad with the optional
\* elevation, an edge, two of the unsupported elements, a line of no known kind
NodeIDs == 0..MaxNodeID
NDLines == {<<"ND", id, 1, 2, 3>> : id \in NodeIDs}
FaceLines == {<<"E3T", 1, 1, 2, 3, 1>>, <<"E4Q", 1, 1, 2, 3, 4, 1, 5>>}
EdgeLines == {<<"E2L", 1, 1, 3, 1>>}
UnsupportedTokens == {"E3L", "E6T", "E8Q", "E9Q"}
UnsupportedLines == {<<"E6T", 1, 1, 2, 3, 4, 5, 6, 0>>, <<"E9Q", 1, 1, 2, 3, 4, 5, 6, 7, 8, 9, 0>>}
OtherLines == {<<"MESHNAME", 0>>}
LineSet == NDLines \cup FaceLines \cup EdgeLines \cup UnsupportedLines \cup OtherLines

\* first lines a file may hold
HeaderLines == {<<"MESH2D">>, <<"MESH3D">>, <<"E6T", 1, 1, 2, 3, 4, 5, 6, 0>>}

\* startsWith( line, token ): the first chunk decides for the lines of the model
StartsWith(line, tok) == line[1] = tok

IsFaceLine(line) == StartsWith(line, "E4Q") \/ StartsWith(line, "E3T")
IsNDLine(line) == StartsWith(line, "ND")
IsEdgeLine(line) == StartsWith(line, "E2L")
IsUnsupportedLineWithoutE9Q(line) ==
  StartsWith(line, "E3L") \/ StartsWith(line, "E6T") \/ StartsWith(line, "E8Q")
IsUnsupportedLine(line) ==
  StartsWith(line, "E3L") \/ StartsWith(line, "E6T") \/ StartsWith(line, "E8Q")
    \/ StartsWith(line, "E9Q")

\* a value-initialised Edge
DefaultEdge == [startVertex |-> 0, endVertex |-> 0]

\* meshes handed to save: vertices 0..n-1; a triangle and a quad over the last
\* vertices, each read forwards or backwards, and a face of two vertices, which save
\* does not support; an edge between the last two vertices, either way
MeshVertex(i) == [x |-> 10 + i, y |-> 20 + i, z |-> 30 + i]
Window(a, len, back) == [j \in 1..len |-> IF back THEN a + len - j ELSE a + j - 1]
FacePool(n) ==
  {Window(n - len, len, back) : len \in {k \in {2, 3, 4} : k <= n}, back \in BOOLEAN}
    \ {Window(n - 2, 2, TRUE)}
EdgePool(n) == IF n < 2 THEN {} ELSE {<<n - 2, n - 1>>, <<n - 1, n - 2>>}
SeqsUpTo(S, n) == UNION {[1..k -> S] : k \in 0..n}
MeshesOf(n) ==
  {[vertices |-> [i \in 1..n |-> MeshVertex(i - 1)], faces |-> fs, edges |-> es] :
     fs \in SeqsUpTo(FacePool(n), MaxMeshFaces),
     es \in SeqsUpTo(EdgePool(n), MaxMeshEdges)}

NoMesh2dm == [valid |-> FALSE]

Init2dmIdle ==
  /\ pc2 = "idle"
  /\ status2 = "None"
  /\ log2 = {}
  /\ pos2 = 1
  /\ faceCount = 0 /\ vertexCount = 0 /\ edgesCount = 0
  /\ vertices2 = EmptyFn /\ edges2 = EmptyFn /\ faces2 = EmptyFn
  /\ elementCenteredElevation = EmptyFn
  /\ faceIndex = 0 /\ vertexIndex = 0 /\ edgeIndex = 0
  /\ vertexIDtoIndex = EmptyFn
  /\ lastVertexID = 0
  /\ mesh2 = NoMesh2dm
  /\ saved = FALSE
  /\ savedMesh = NoMesh2dm

\* a file of a header line and up to MaxLines lines, or no readable file
Init2dm ==
  /\ \/ file2dm = <<>>
     \/ \E h \in HeaderLines, n \in 0..MaxLines :
          \E b \in [1..n -> LineSet] : file2dm = <<h>> \o b
  /\ Init2dmIdle

\* MDAL::Log::error / MDAL::Log::warning
Log2(st) ==
  /\ status2' = st
  /\ log2' = log2 \cup {st}

\* ------------------------------------------------------------------ save
\* the line of vertex i (0-based)
SaveVertexLine(m, i) ==
  <<"ND", i + 1, m.vertices[i + 1].x, m.vertices[i + 1].y, m.vertices[i + 1].z>>

\* the line of face i (0-based): built anew for 3 or 4 vertices, else the line
\* written last is written again
SaveFaceLineZeroBased(m, i, line) ==
  LET f == m.faces[i + 1]
  IN IF Len(f) > 2 /\ Len(f) < 5
     THEN <<(IF Len(f) = 3 THEN "E3T" ELSE "E4Q"), i + 1>> \o [j \in 1..Len(f) |-> f[j]]
     ELSE line
SaveFaceLine(m, i, line) ==
  LET f == m.faces[i + 1]
  IN IF Len(f) > 2 /\ Len(f) < 5
     THEN <<(IF Len(f) = 3 THEN "E3T" ELSE "E4Q"), i + 1>> \o [j \in 1..Len(f) |-> f[j] + 1]
     ELSE line

RECURSIVE SaveFaceLines(_, _, _)
\* the lines of faces i.. given the line written last
SaveFaceLines(m, i, line) ==
  IF i >= Len(m.faces) THEN <<>>
  ELSE LET l == SaveFaceLine(m, i, line) IN <<l>> \o SaveFaceLines(m, i + 1, l)

SaveEdgeLine(m, i) ==
  <<"E2L", Len(m.faces) + i + 1, m.edges[i + 1][1] + 1, m.edges[i + 1][2] + 1, 1>>

\* every line save writes
SaveLines(m) ==
  LET nd == [i \in 1..Len(m.vertices) |-> SaveVertexLine(m, i - 1)]
      last == IF Len(nd) = 0 THEN <<"MESH2D">> ELSE nd[Len(nd)]
  IN <<<<"MESH2D">>>> \o nd \o SaveFaceLines(m, 0, last)
       \o [i \in 1..Len(m.edges) |-> SaveEdgeLine(m, i - 1)]

\* save to a uri that names no file yet: the file opens and every line is written,
\* or it cannot be opened, the error is logged and nothing is written
Save2dm ==
  /\ pc2 = "idle"
  /\ ~saved
  /\ file2dm = <<>>
  /\ \E n \in 0..MaxMeshVerts :
       \E m \in MeshesOf(n) :
         /\ savedMesh' = m
         /\ \/ /\ file2dm' = SaveLines(m)
               /\ status2' = "None"
               /\ log2' = {}
            \/ /\ file2dm' = file2dm
               /\ status2' = "Err_FailToWriteToDisk"
               /\ log2' = {"Err_FailToWriteToDisk"}
  /\ saved' = TRUE
  /\ UNCHANGED <<varsTin, pc2, pos2, faceCount, vertexCount, edgesCount, vertices2, edges2,
                 faces2, elementCenteredElevation, faceIndex, vertexIndex, edgeIndex,
                 vertexIDtoIndex, lastVertexID, mesh2>>

\* ------------------------------------------------------------------ load
\* the first line is read and starts with MESH2D
Load2dmOpen ==
  /\ pc2 = "idle"
  /\ Len(file2dm) > 0 /\ StartsWith(file2dm[1], "MESH2D")
  /\ status2' = "None"
  /\ log2' = {}
  /\ faceCount' = 0 /\ vertexCount' = 0 /\ edgesCount' = 0
  /\ pos2' = 2
  /\ pc2' = "count"
  /\ UNCHANGED <<varsTin, file2dm, vertices2, edges2, faces2, elementCenteredElevation,
                 faceIndex, vertexIndex, edgeIndex, vertexIDtoIndex, lastVertexID, mesh2,
                 saved, savedMesh>>

Load2dmBadHeader ==
  /\ pc2 = "idle"
  /\ ~(Len(file2dm) > 0 /\ StartsWith(file2dm[1], "MESH2D"))
  /\ status2' = "Err_UnknownFormat"
  /\ log2' = {"Err_UnknownFormat"}
  /\ pos2' = IF Len(file2dm) > 0 THEN 2 ELSE pos2
  /\ pc2' = "failed"
  /\ UNCHANGED <<varsTin, file2dm, faceCount, vertexCount, edgesCount, vertices2,
                 edges2, faces2, elementCenteredElevation, faceIndex, vertexIndex,
                 edgeIndex, vertexIDtoIndex, lastVertexID, mesh2, saved, savedMesh>>

\* what one iteration of the counting loop adds to the three counts
CountedAsQuadsOnly(line) ==
  IF StartsWith(line, "E4Q") THEN <<1, 0, 0>>
  ELSE IF IsNDLine(line) THEN <<0, 1, 0>>
  ELSE IF IsEdgeLine(line) THEN <<0, 0, 1>>
  ELSE <<0, 0, 0>>
CountedAs(line) ==
  IF IsFaceLine(line) THEN <<1, 0, 0>>
  ELSE IF IsNDLine(line) THEN <<0, 1, 0>>
  ELSE IF IsEdgeLine(line) THEN <<0, 0, 1>>
  ELSE <<0, 0, 0>>

\* one iteration of the counting loop
Count2dmLine ==
  /\ pc2 = "count"
  /\ pos2 <= Len(file2dm)
  /\ LET line == file2dm[pos2]
     IN /\ ~(~IsFaceLine(line) /\ ~IsNDLine(line) /\ ~IsEdgeLine(line)
               /\ IsUnsupportedLine(line))
        /\ faceCount' = faceCount + CountedAs(line)[1]
        /\ vertexCount' = vertexCount + CountedAs(line)[2]
        /\ edgesCount' = edgesCount + CountedAs(line)[3]
  /\ pos2' = pos2 + 1
  /\ UNCHANGED <<varsTin, file2dm, pc2, status2, log2, vertices2, edges2, faces2,
                 elementCenteredElevation, faceIndex, vertexIndex, edgeIndex,
                 vertexIDtoIndex, lastVertexID, mesh2, saved, savedMesh>>

\* the counting loop meets an unsupported element
Count2dmUnsupported ==
  /\ pc2 = "count"
  /\ pos2 <= Len(file2dm)
  /\ LET line == file2dm[pos2]
     IN ~IsFaceLine(line) /\ ~IsNDLine(line) /\ ~IsEdgeLine(line) /\ IsUnsupportedLine(line)
  /\ Log2("Err_UnsupportedElement")
  /\ pos2' = pos2 + 1
  /\ pc2' = "failed"
  /\ UNCHANGED <<varsTin, file2dm, faceCount, vertexCount, edgesCount, vertices2,
                 edges2, faces2, elementCenteredElevation, faceIndex, vertexIndex,
                 edgeIndex, vertexIDtoIndex, lastVertexID, mesh2, saved, savedMesh>>

\* the counting loop is over: allocate the containers and rewind the file
Load2dmAllocate ==
  /\ pc2 = "count"
  /\ pos2 > Len(file2dm)
  /\ vertices2' = [i \in 0..(vertexCount - 1) |-> DefaultVertex]
  /\ edges2' = [i \in 0..(edgesCount - 1) |-> DefaultEdge]
  /\ faces2' = [i \in 0..(faceCount - 1) |-> <<>>]
  /\ elementCenteredElevation' = EmptyFn
  /\ faceIndex' = 0 /\ vertexIndex' = 0 /\ edgeIndex' = 0
  /\ vertexIDtoIndex' = EmptyFn
  /\ lastVertexID' = 0
  /\ pos2' = 1
  /\ pc2' = "parse"
  /\ UNCHANGED <<varsTin, file2dm, status2, log2, faceCount, vertexCount, edgesCount,
                 mesh2, saved, savedMesh>>

\* MDAL::toSizeT( line[1] ): the digit of the element token
FaceVertexCount(line) == IF StartsWith(line, "E3T") THEN 3 ELSE 4

\* the vertex IDs of a face line, 0-based
ParsedFaceKeepOneBased(line) == [i \in 1..FaceVertexCount(line) |-> Chunk(line, i + 1)]
ParsedFace(line) == [i \in 1..FaceVertexCount(line) |-> SizeSub1(Chunk(line, i + 1))]

Parse2dmFace ==
  /\ pc2 = "parse"
  /\ pos2 <= Len(file2dm)
  /\ IsFaceLine(file2dm[pos2])
  /\ LET line == file2dm[pos2]
         n == FaceVertexCount(line)
         blank == IF DOMAIN elementCenteredElevation = {}
                  THEN [i \in 0..(faceCount - 1) |-> NaN]
                  ELSE elementCenteredElevation
     IN /\ faces2' = [faces2 EXCEPT ![faceIndex] = ParsedFace(line)]
        /\ elementCenteredElevation' =
             IF Len(line) = n + 4
             THEN [blank EXCEPT ![faceIndex] = Chunk(line, n + 3)]
             ELSE elementCenteredElevation
  /\ faceIndex' = faceIndex + 1
  /\ pos2' = pos2 + 1
  /\ UNCHANGED <<varsTin, file2dm, pc2, status2, log2, faceCount, vertexCount, edgesCount,
                 vertices2, edges2, vertexIndex, edgeIndex, vertexIDtoIndex, lastVertexID,
                 mesh2, saved, savedMesh>>

\* the edge of an E2L line: the two vertex IDs, 0-based
ParsedEdge(line) ==
  [startVertex |-> SizeSub1(Chunk(line, 2)), endVertex |-> SizeSub1(Chunk(line, 3))]

Parse2dmEdge ==
  /\ pc2 = "parse"
  /\ pos2 <= Len(file2dm)
  /\ ~IsFaceLine(file2dm[pos2]) /\ IsEdgeLine(file2dm[pos2])
  /\ edges2' = [edges2 EXCEPT ![edgeIndex] = ParsedEdge(file2dm[pos2])]
  /\ edgeIndex' = edgeIndex + 1
  /\ pos2' = pos2 + 1
  /\ UNCHANGED <<varsTin, file2dm, pc2, status2, log2, faceCount, vertexCount, edgesCount,
                 vertices2, faces2, elementCenteredElevation, faceIndex, vertexIndex,
                 vertexIDtoIndex, lastVertexID, mesh2, saved, savedMesh>>

Is2dmNDAt(p) ==
  /\ pc2 = "parse"
  /\ p <= Len(file2dm)
  /\ ~IsFaceLine(file2dm[p]) /\ ~IsEdgeLine(file2dm[p]) /\ IsNDLine(file2dm[p])

\* "( lastVertexID != 0 ) && ( nodeID <= lastVertexID )" for a non-zero nodeID
OutOfOrderIgnoringEqual(nodeID, last) == nodeID # 0 /\ last # 0 /\ nodeID < last
OutOfOrder(nodeID, last) == nodeID # 0 /\ last # 0 /\ nodeID <= last

\* _parse_vertex_id_gaps: the map afterwards
ParseVertexIdGapsLastWins(map, vIndex, vID) ==
  IF vIndex = vID THEN map
  ELSE [k \in DOMAIN map \cup {vID} |-> IF k = vID THEN vIndex ELSE map[k]]
ParseVertexIdGaps(map, vIndex, vID) ==
  IF vIndex = vID THEN map
  ELSE IF vID \in DOMAIN map THEN map
  ELSE [k \in DOMAIN map \cup {vID} |-> IF k = vID THEN vIndex ELSE map[k]]

\* _parse_vertex_id_gaps: does it warn
GapsWarns(map, vIndex, vID) == vIndex # vID /\ vID \in DOMAIN map

Parse2dmND ==
  /\ Is2dmNDAt(pos2)
  /\ LET line == file2dm[pos2]
         nodeID == Chunk(line, 1)
     IN /\ ~OutOfOrder(nodeID, lastVertexID)
        /\ lastVertexID' = IF nodeID # 0 THEN nodeID ELSE lastVertexID
        /\ vertexIDtoIndex' = ParseVertexIdGaps(vertexIDtoIndex, vertexIndex, SizeSub1(nodeID))
        /\ IF GapsWarns(vertexIDtoIndex, vertexIndex, SizeSub1(nodeID))
           THEN Log2("Warn_ElementNotUnique")
           ELSE UNCHANGED <<status2, log2>>
        /\ vertices2' = [vertices2 EXCEPT ![vertexIndex] =
                           [x |-> Chunk(line, 2), y |-> Chunk(line, 3), z |-> Chunk(line, 4)]]
  /\ vertexIndex' = vertexIndex + 1
  /\ pos2' = pos2 + 1
  /\ UNCHANGED <<varsTin, file2dm, pc2, faceCount, vertexCount, edgesCount, edges2, faces2,
                 elementCenteredElevation, faceIndex, edgeIndex, mesh2, saved, savedMesh>>

\* "nodes are not ordered by index"
Parse2dmNDOutOfOrder ==
  /\ Is2dmNDAt(pos2)
  /\ OutOfOrder(Chunk(file2dm[pos2], 1), lastVertexID)
  /\ Log2("Err_InvalidData")
  /\ pos2' = pos2 + 1
  /\ pc2' = "failed"
  /\ UNCHANGED <<varsTin, file2dm, faceCount, vertexCount, edgesCount, vertices2,
                 edges2, faces2, elementCenteredElevation, faceIndex, vertexIndex,
                 edgeIndex, vertexIDtoIndex, lastVertexID, mesh2, saved, savedMesh>>

\* a line the parsing loop has no branch for
Parse2dmSkip ==
  /\ pc2 = "parse"
  /\ pos2 <= Len(file2dm)
  /\ ~IsFaceLine(file2dm[pos2]) /\ ~IsEdgeLine(file2dm[pos2]) /\ ~IsNDLine(file2dm[pos2])
  /\ pos2' = pos2 + 1
  /\ UNCHANGED <<varsTin, file2dm, pc2, status2, log2, faceCount, vertexCount, edgesCount,
                 vertices2, edges2, faces2, elementCenteredElevation, faceIndex,
                 vertexIndex, edgeIndex, vertexIDtoIndex, lastVertexID, mesh2, saved,
                 savedMesh>>

\* the loop over the faces: one vertex reference resolved
ResolveNode(map, nodeID) == IF nodeID \in DOMAIN map THEN map[nodeID] ELSE nodeID

\* "vertices.size() < nodeID" for a reference the map does not hold
InvalidNode(map, nodeID) == nodeID \notin DOMAIN map /\ vertexCount < nodeID

Load2dmResolve ==
  /\ pc2 = "parse"
  /\ pos2 > Len(file2dm)
  /\ faces2' = [i \in DOMAIN faces2 |->
                  [nd \in 1..Len(faces2[i]) |-> ResolveNode(vertexIDtoIndex, faces2[i][nd])]]
  /\ IF \E i \in DOMAIN faces2 : \E nd \in 1..Len(faces2[i]) :
          InvalidNode(vertexIDtoIndex, faces2[i][nd])
     THEN Log2("Warn_ElementWithInvalidNode")
     ELSE UNCHANGED <<status2, log2>>
  /\ pc2' = "resolved"
  /\ UNCHANGED <<varsTin, file2dm, pos2, faceCount, vertexCount, edgesCount, vertices2,
                 edges2, elementCenteredElevation, faceIndex, vertexIndex, edgeIndex,
                 vertexIDtoIndex, lastVertexID, mesh2, saved, savedMesh>>

\* the mesh is built from the containers
Load2dmBuild ==
  /\ pc2 = "resolved"
  /\ mesh2' = [valid |-> TRUE,
               verticesCount |-> vertexCount,
               edgesCount |-> edgesCount,
               facesCount |-> faceCount,
               faces |-> faces2,
               vertices |-> vertices2,
               edges |-> edges2,
               vertexIDtoIndex |-> vertexIDtoIndex]
  /\ pc2' = "done"
  /\ UNCHANGED <<varsTin, file2dm, status2, log2, pos2, faceCount, vertexCount, edgesCount,
                 vertices2, edges2, faces2, elementCenteredElevation, faceIndex,
                 vertexIndex, edgeIndex, vertexIDtoIndex, lastVertexID, saved, savedMesh>>

Next2dmLoad ==
  \/ Load2dmOpen
  \/ Load2dmBadHeader
  \/ Count2dmLine
  \/ Count2dmUnsupported
  \/ Load2dmAllocate
  \/ Parse2dmFace
  \/ Parse2dmEdge
  \/ Parse2dmND
  \/ Parse2dmNDOutOfOrder
  \/ Parse2dmSkip
  \/ Load2dmResolve
  \/ Load2dmBuild

\* save never writes an unsupported element, so Count2dmUnsupported is left out
Next2dmSaveLoad ==
  \/ Save2dm
  \/ Load2dmOpen
  \/ Load2dmBadHeader
  \/ Count2dmLine
  \/ Load2dmAllocate
  \/ Parse2dmFace
  \/ Parse2dmEdge
  \/ Parse2dmND
  \/ Parse2dmNDOutOfOrder
  \/ Parse2dmSkip
  \/ Load2dmResolve
  \/ Load2dmBuild

(***************************************************************************)
(* Specifications                                                          *)
(***************************************************************************)
InitSpecTin == InitTin /\ file2dm = <<>> /\ Init2dmIdle
InitSpec2dm == InitTin /\ Init2dm
\* DriverEsriTin::load on short face files of any triangles
SpecTin == InitSpecTin /\ [][NextTinShort]_vars
\* DriverEsriTin::load on face files long enough to need a second mask word
SpecMask == InitSpecTin /\ [][NextTinLong]_vars
\* Driver2dm::load of a file
Spec2dm == InitSpec2dm /\ [][Next2dmLoad]_vars
\* Driver2dm::save of a mesh to a new file and Driver2dm::load of what was written
Spec2dmSaveLoad == InitSpecTin /\ [][Next2dmSaveLoad]_vars

(***************************************************************************)
(* Claims about the Esri TIN driver                                        *)
(***************************************************************************)
\* raw indexes referenced by a kept face: the entries Round 1 marked wanted
WantedSet == {rawFaces[k][j] : k \in 1..Len(rawFaces), j \in 1..3}

TinEnded == tpc \in {"done", "failed"}

\* the coordinate file holds one record fewer than the elevation file, and the
\* missing record is that of a wanted raw index (referenced by a kept face, and
\* wanted as Round 3 tests it)
ScenarioD ==
  /\ zCount = xyCount + 1 /\ ~xyHalf
  /\ xyCount \in WantedSet
  /\ rawAndCorrectedIndexesMap[xyCount] < totalIndexesCount

\* C1: when the coordinate file holds one record fewer than the elevation file and
\* the missing record belongs to a wanted raw index, load fails with an error and
\* returns no mesh.
C1_ShortXYFailsLoad ==
  (TinEnded /\ ScenarioD) => (tpc = "failed" /\ tstatus # "None" /\ tmesh = NoMesh)

\* bit b (0 = lowest) of the two's complement int32 w
Bit(w, b) == IF b = MaskWordBits - 1 THEN (IF w < 0 THEN 1 ELSE 0) ELSE (w \div (2 ^ b)) % 2

RECURSIVE Shr(_, _)
\* w shifted right n times, one bit at a time
Shr(w, n) == IF n = 0 THEN w ELSE Shr(w \div 2, n - 1)

KeptCount == Cardinality({i \in 1..Len(keptFlags) : keptFlags[i]})

\* face record i (1-based position) was decided by bit ((i-1) mod 32) of the word
\* read for its block of 32
DecidedByFreshWord(i) ==
  LET blk == (i - 1) \div MaskWordBits
  IN /\ Len(mskRead) > blk
     /\ keptFlags[i] = (Bit(mskRead[blk + 1], (i - 1) % MaskWordBits) = 0)

\* face record i (1-based position), of a block for which no word is read, was
\* decided by what is left of the last word read after one shift per face since
\* (0 when no word was ever read)
DecidedByLeftOver(i) ==
  LET n == Len(mskRead)
      left == IF n = 0 THEN 0 ELSE Shr(mskRead[n], (i - 1) - MaskWordBits * (n - 1))
  IN keptFlags[i] = (left % 2 = 0)

\* the output holds exactly the face records flagged kept
OutputIsKeptFaces ==
  /\ Len(rawFaces) = KeptCount
  /\ tpc = "done" => tmesh.facesCount = KeptCount

\* C3 (as stated): every face record is in the output iff its bit of the mask word
\* freshly read for its block of 32 is 0.
C3_MaskBitOfFreshWord ==
  /\ \A i \in 1..Len(keptFlags) : DecidedByFreshWord(i)
  /\ OutputIsKeptFaces

\* C3 (amended): every face record whose block of 32 starts below maskBitsCount is
\* in the output iff its bit of the mask word freshly read for that block is 0; a
\* face record of a later block is in the output iff the lowest bit left of the last
\* word read is 0; the word is shifted right by one after every face, kept or not.
C3_MaskBitWithinBitsCount ==
  /\ \A i \in 1..Len(keptFlags) :
       MaskWordBits * ((i - 1) \div MaskWordBits) < maskBitsCount => DecidedByFreshWord(i)
  /\ \A i \in 1..Len(keptFlags) :
       MaskWordBits * ((i - 1) \div MaskWordBits) >= maskBitsCount => DecidedByLeftOver(i)
  /\ OutputIsKeptFaces
  /\ (tpc = "round1" /\ c > 0 /\ MaskWordBits * ((c - 1) \div MaskWordBits) < maskBitsCount)
       => maskInt = Shr(mskRead[((c - 1) \div MaskWordBits) + 1],
                        c - MaskWordBits * ((c - 1) \div MaskWordBits))

\* a load that returned a mesh after reading into the second mask word: faces 0 and
\* 33 kept, faces 1 and 32 masked
C3_Witness ==
  /\ tpc = "done"
  /\ Len(keptFlags) = MaskWordBits + 2
  /\ Len(mskRead) = 2
  /\ keptFlags[1] /\ ~keptFlags[2]
  /\ ~keptFlags[MaskWordBits + 1] /\ keptFlags[MaskWordBits + 2]

CompactionDone == (tpc = "round2" /\ r2i >= totalIndexesCount) \/ tpc \in {"round3", "done"}

\* C4: after the CompactIndices pass the wanted entries hold exactly the dense
\* indexes 0..correctedIndexCount-1, strictly increasing in raw-index order, and
\* every entry not marked wanted holds the sentinel totalIndexesCount.
C4_CompactionInvariant ==
  CompactionDone =>
    /\ WantedSet \subseteq DOMAIN rawAndCorrectedIndexesMap
    /\ {rawAndCorrectedIndexesMap[r] : r \in WantedSet} = 0..(correctedIndexCount - 1)
    /\ \A r1, r2 \in WantedSet :
         r1 < r2 => rawAndCorrectedIndexesMap[r1] < rawAndCorrectedIndexesMap[r2]
    /\ \A r \in DOMAIN rawAndCorrectedIndexesMap :
         r \notin WantedSet => rawAndCorrectedIndexesMap[r] = totalIndexesCount

\* the same statement for every total raw index count but 1, where the mark written
\* by Round 1 is the sentinel itself
C4_CompactionFromTwo == totalIndexesCount # WantedMark => C4_CompactionInvariant

\* C10: in a returned mesh every index of every kept face is a valid vertex index,
\* and the vertex there holds the record of the raw index the face named in the file.
\* Stated for the meshes with at least one vertex, which load returns without
\* passing through the undefined "datasetGroups.back()".
C10_FacesPointAtTheirVertices ==
  (tpc = "done" /\ tmesh.verticesCount > 0) =>
    \A k \in 1..Len(rawFaces) : \A j \in 1..3 :
      /\ tmesh.faces[k][j] \in 0..(tmesh.verticesCount - 1)
      /\ tmesh.vertices[tmesh.faces[k][j]] = RecordVertex(rawFaces[k][j])

\* the same statement when the total is not 1 and both coordinate files hold a
\* record for every raw index
C10_WithCompleteFiles ==
  (totalIndexesCount # WantedMark /\ xyCount >= totalIndexesCount /\ zCount >= totalIndexesCount)
    => C10_FacesPointAtTheirVertices

(***************************************************************************)
(* Claims about the 2DM driver                                             *)
(***************************************************************************)
Load2dmEnded == pc2 \in {"done", "failed"}

\* what the file holds, read off its lines
HeaderOK == Len(file2dm) > 0 /\ file2dm[1][1] = "MESH2D"
LinesOf(toks) == {p \in 1..Len(file2dm) : file2dm[p][1] \in toks}
HasUnsupported == LinesOf(UnsupportedTokens) # {}
NDLinesBefore(p) == {q \in LinesOf({"ND"}) : q < p}
\* the vertex slot the ND line at q fills, and its ID as written
SlotOf(q) == Cardinality(NDLinesBefore(q))
FileID(q) == file2dm[q][2]
\* some ND line carries a non-zero ID not greater than an earlier non-zero ID
OrderViolation ==
  \E q1, q2 \in LinesOf({"ND"}) :
    q1 < q2 /\ FileID(q1) # 0 /\ FileID(q2) # 0 /\ FileID(q2) <= FileID(q1)
\* the non-zero ID seen last before line p, 0 when there is none
LastNonZeroBefore(p) ==
  LET S == {q \in NDLinesBefore(p) : FileID(q) # 0}
  IN IF S = {} THEN 0 ELSE FileID(CHOOSE q \in S : \A r \in S : r <= q)

FailedWith(st) == pc2 = "failed" /\ status2 = st /\ mesh2 = NoMesh2dm

\* C2: in a returned mesh the edge of an E2L line whose endpoints are IDs of ND
\* lines of the file holds the container positions of those ND lines.
C2_EdgesHoldVertexPositions ==
  pc2 = "done" =>
    \A p \in LinesOf({"E2L"}) :
      LET e == Cardinality({q \in LinesOf({"E2L"}) : q < p})
          nds == LinesOf({"ND"})
      IN \A qa, qb \in nds :
           (FileID(qa) = file2dm[p][3] /\ FileID(qb) = file2dm[p][4]) =>
             /\ mesh2.edges[e].startVertex = SlotOf(qa)
             /\ mesh2.edges[e].endVertex = SlotOf(qb)

\* C5 (as stated, for the files that start with the MESH2D header): a file with an
\* ND line whose non-zero ID is not greater than an earlier non-zero ND ID fails the
\* load with the invalid-data error.
C5_OutOfOrderFailsLoad ==
  (Load2dmEnded /\ HeaderOK /\ OrderViolation) => FailedWith("Err_InvalidData")

\* C5 (amended): in a file with the MESH2D header and no unsupported element line,
\* the load fails with the invalid-data error and returns no mesh exactly when such
\* an ND line exists; ND lines of ID 0 neither trigger the check nor change the
\* remembered last ID.
C5_OutOfOrderFailsParsing ==
  /\ (Load2dmEnded /\ HeaderOK /\ ~HasUnsupported) =>
       /\ OrderViolation => FailedWith("Err_InvalidData")
       /\ ~OrderViolation => pc2 = "done"
  /\ pc2 = "parse" => lastVertexID = LastNonZeroBefore(pos2)

\* the load failed on an ND line (the line read last) that is out of order with an
\* ND line before an ND line of ID 0
C5_Witness ==
  /\ FailedWith("Err_InvalidData")
  /\ \E q1, q2 \in NDLinesBefore(pos2 - 1) :
       q1 < q2 /\ FileID(q1) # 0 /\ FileID(q2) = 0 /\ FileID(pos2 - 1) <= FileID(q1)

\* C6 (as stated): a file with an unsupported element line on any line fails the
\* load with UnsupportedElement.
C6_UnsupportedFailsLoad ==
  (Load2dmEnded /\ HasUnsupported) => FailedWith("Err_UnsupportedElement")

\* C6 (amended): a file with the MESH2D header and an unsupported element line on
\* any later line fails the load with UnsupportedElement and returns no mesh, also
\* when ND lines are out of order; it is decided in the counting pass, before any
\* container is allocated and any line parsed.
C6_UnsupportedFailsCounting ==
  (Load2dmEnded /\ HeaderOK /\ HasUnsupported) =>
    /\ FailedWith("Err_UnsupportedElement")
    /\ pos2 - 1 \in LinesOf(UnsupportedTokens)
    /\ \A q \in LinesOf(UnsupportedTokens) : pos2 - 1 <= q
    /\ vertexIndex = 0 /\ faceIndex = 0 /\ edgeIndex = 0
    /\ vertices2 = EmptyFn /\ faces2 = EmptyFn /\ edges2 = EmptyFn
    /\ vertexIDtoIndex = EmptyFn /\ lastVertexID = 0

\* the load failed on an unsupported element that follows ND lines out of order
C6_Witness ==
  /\ FailedWith("Err_UnsupportedElement")
  /\ OrderViolation
  /\ vertexCount = 2

AllFaces3or4(m) == \A i \in 1..Len(m.faces) : Len(m.faces[i]) \in {3, 4}

\* save opened the uri and wrote the file
SaveWroteFile == saved /\ file2dm # <<>>

\* C7: a mesh of triangles and quads that is saved, and whose written file is loaded
\* again, comes back with as many vertices and faces, every face with the same vertex
\* indices in the same order, and no ID->Index entry recorded.
C7_RoundTrip ==
  (SaveWroteFile /\ Load2dmEnded) =>
    (AllFaces3or4(savedMesh) =>
       /\ pc2 = "done"
       /\ mesh2.verticesCount = Len(savedMesh.vertices)
       /\ mesh2.facesCount = Len(savedMesh.faces)
       /\ \A i \in 1..Len(savedMesh.faces) : mesh2.faces[i - 1] = savedMesh.faces[i]
       /\ mesh2.vertexIDtoIndex = EmptyFn)

\* a triangle and a quad, one of them read backwards, and an edge went through
\* save and load
C7_Witness ==
  /\ SaveWroteFile /\ pc2 = "done"
  /\ Len(savedMesh.faces) = 2 /\ Len(savedMesh.edges) = 1
  /\ Len(savedMesh.faces[1]) = 3 /\ Len(savedMesh.faces[2]) = 4
  /\ savedMesh.faces[1][1] > savedMesh.faces[1][2]
  /\ mesh2.facesCount = 2 /\ mesh2.edgesCount = 1

\* the ID of the ND line at q, 0-based as the parsing pass stores it
ZeroBasedID(q) == (FileID(q) - 1) % SizeMod
\* the ND lines parsed so far whose 0-based ID differs from their slot
GapLinesBefore(p) == {q \in NDLinesBefore(p) : ZeroBasedID(q) # SlotOf(q)}

C8_MapInvariant ==
  pc2 \in {"parse", "resolved", "done"} =>
    LET gaps == GapLinesBefore(pos2)
    IN /\ DOMAIN vertexIDtoIndex = {ZeroBasedID(q) : q \in gaps}
       /\ \A k \in DOMAIN vertexIDtoIndex : vertexIDtoIndex[k] \in 0..(vertexCount - 1)
       /\ \A k1, k2 \in DOMAIN vertexIDtoIndex :
            vertexIDtoIndex[k1] = vertexIDtoIndex[k2] => k1 = k2
       /\ \A k \in DOMAIN vertexIDtoIndex :
            \E q \in gaps :
              /\ ZeroBasedID(q) = k /\ vertexIDtoIndex[k] = SlotOf(q)
              /\ \A r \in gaps : ZeroBasedID(r) = k => q <= r

\* an accepted ND line whose 0-based ID is already a key
DuplicateNDNext ==
  /\ pc2 = "parse" /\ pos2 <= Len(file2dm) /\ file2dm[pos2][1] = "ND"
  /\ ZeroBasedID(pos2) \in DOMAIN vertexIDtoIndex
  /\ ZeroBasedID(pos2) # SlotOf(pos2)
  /\ ~(FileID(pos2) # 0 /\ FileID(pos2) <= LastNonZeroBefore(pos2))

C8_DuplicateStep ==
  DuplicateNDNext =>
    /\ pc2' = "parse"
    /\ vertexIDtoIndex' = vertexIDtoIndex
    /\ vertexIndex' = vertexIndex + 1
    /\ "Warn_ElementNotUnique" \in log2'

\* C8: the keys of the ID->Index map are the 0-based IDs that differed from their
\* vertex slot, every key maps into [0, verticesCount), no two keys map to the same
\* value, a key keeps the slot of the first ND line that recorded it, and an ND line
\* whose ID is already a key leaves the map unchanged and the load goes on.
C8_IDToIndexMap == [](C8_MapInvariant) /\ [][C8_DuplicateStep]_vars

\* a mesh was returned after a duplicate ID was met and two keys were recorded
C8_Witness ==
  /\ pc2 = "done"
  /\ "Warn_ElementNotUnique" \in log2
  /\ Cardinality(DOMAIN mesh2.vertexIDtoIndex) = 2

\* C9: a file with the MESH2D header, no unsupported element line and ND lines in
\* order loads into a mesh with as many vertices as ND lines, faces as E3T and E4Q
\* lines and edges as E2L lines; the slot counters of the parsing pass end at the
\* counts of the counting pass.
C9_EntityCounts ==
  (Load2dmEnded /\ HeaderOK /\ ~HasUnsupported /\ ~OrderViolation) =>
    /\ pc2 = "done"
    /\ mesh2.verticesCount = Cardinality(LinesOf({"ND"}))
    /\ mesh2.facesCount = Cardinality(LinesOf({"E3T", "E4Q"}))
    /\ mesh2.edgesCount = Cardinality(LinesOf({"E2L"}))
    /\ DOMAIN mesh2.vertices = 0..(mesh2.verticesCount - 1)
    /\ DOMAIN mesh2.faces = 0..(mesh2.facesCount - 1)
    /\ DOMAIN mesh2.edges = 0..(mesh2.edgesCount - 1)
    /\ vertexIndex = vertexCount /\ faceIndex = faceCount /\ edgeIndex = edgesCount

\* a mesh with a vertex, a face and an edge was returned from a file not written by save
C9_Witness ==
  /\ pc2 = "done" /\ ~saved
  /\ mesh2.verticesCount = 1 /\ mesh2.facesCount = 1 /\ mesh2.edgesCount = 1

\* the face lines of the file: the slot a face line fills, how many vertex
\* references it carries, and reference nd (1-based) as the parsing pass stores it
FaceSlotOf(p) == Cardinality({q \in LinesOf({"E3T", "E4Q"}) : q < p})
FaceRefCount(p) == IF file2dm[p][1] = "E3T" THEN 3 ELSE 4
FaceRef(p, nd) == (file2dm[p][nd + 2] - 1) % SizeMod
\* the resolving loop warned "found invalid node" for reference nd of the face line at p
WarnedFor(p, nd) ==
  /\ "Warn_ElementWithInvalidNode" \in log2
  /\ InvalidNode(mesh2.vertexIDtoIndex, FaceRef(p, nd))

\* C11: in a returned mesh every face vertex index for which no invalid-node
\* warning was emitted is a valid index in [0, verticesCount).
C11_UnwarnedIndexIsValid ==
  pc2 = "done" =>
    \A p \in LinesOf({"E3T", "E4Q"}) : \A nd \in 1..FaceRefCount(p) :
      ~WarnedFor(p, nd) => mesh2.faces[FaceSlotOf(p)][nd] \in 0..(mesh2.verticesCount - 1)

\* what holds instead: an index without a warning is at most verticesCount, one past
\* the last valid index
C11_UnwarnedIndexAtMostCount ==
  pc2 = "done" =>
    \A p \in LinesOf({"E3T", "E4Q"}) : \A nd \in 1..FaceRefCount(p) :
      ~WarnedFor(p, nd) => mesh2.faces[FaceSlotOf(p)][nd] \in 0..mesh2.verticesCount
====
